---- MODULE Spec2Model ----
(***************************************************************************)
(* A model of the samaraenergo client: the date codec, the deferred-field  *)
(* validator and the response envelope of models.py, the submission path   *)
(* and the fetch calls of client.py, and the QR-code locator of qrcode.py. *)
(***************************************************************************)
EXTENDS Integers, Sequences, FiniteSets, TLC

VARIABLES
    \* ---- client.py: one entry per call on a single SamaraEnergoClient
    pc,         \* where each call is: idle, an await point, done or failed
    op,         \* the method called
    values,     \* set_value's *values
    device_id,  \* set_value's device_id
    now,        \* set_value's `now`
    jsonStr,    \* set_value's json_str (the serialized primary reading)
    headers,    \* the x-csrf-token the call holds after its probe
    reqs,       \* the requests each call has issued, in order
    result,     \* what the call returned
    err,        \* the exception that ended the call
    body,       \* the response body the call has read
    issued,     \* the token the provider gave in answer to the call's probe
    file,       \* the content of research/test.json
    researchDir,\* whether the directory research/ exists
    dumped,     \* the calls that wrote research/test.json
    conc,       \* the pairs of calls that were in flight together
    \* ---- models.py: the date codec
    dtIn, dtWire, dtOut, dtPc,
    \* ---- models.py: the deferred validator and the response envelope
    jsIn, jsOut, jsPc,
    \* ---- qrcode.py: find_qrcode
    blocks, qrOut, qrPc

others == <<dtIn, dtWire, dtOut, dtPc, jsIn, jsOut, jsPc, blocks, qrOut, qrPc>>

clientVars == <<pc, op, values, device_id, now, jsonStr, headers, reqs, result,
                err, body, issued, file, researchDir, dumped, conc>>
codecVars == <<dtIn, dtWire, dtOut, dtPc>>
jsonVars == <<jsIn, jsOut, jsPc>>
qrVars == <<blocks, qrOut, qrPc>>
vars == <<clientVars, codecVars, jsonVars, qrVars>>

-----------------------------------------------------------------------------
(* Values shared by the sections.                                          *)

\* Python's None.
None == [kind |-> "none"]

\* An exception of the given class.
Raise(cls) == [kind |-> "error", cls |-> cls]

IsError(x) == x.kind = "error"

\* A text is a sequence of one-character strings.
Str(s) == [kind |-> "str", s |-> s]

Digits == <<"0", "1", "2", "3", "4", "5", "6", "7", "8", "9">>

DigitChar(d) == Digits[d + 1]

IsDigit(ch) == \E i \in 1..Len(Digits) : Digits[i] = ch

DigitVal(ch) == (CHOOSE i \in 1..Len(Digits) : Digits[i] = ch) - 1

RECURSIVE DecStr(_)
\* The decimal digits of a natural number, as str(n) writes them.
DecStr(n) == IF n < 10 THEN <<DigitChar(n)>>
             ELSE DecStr(n \div 10) \o <<DigitChar(n % 10)>>

RECURSIVE ZeroPad(_, _)
\* Zero padding on the left to a minimum width, as the format spec 0w does.
ZeroPad(s, w) == IF Len(s) >= w THEN s ELSE ZeroPad(<<"0">> \o s, w)

RECURSIVE DecVal(_)
\* The number a sequence of digits writes.
DecVal(s) == IF s = <<>> THEN 0
             ELSE DecVal(SubSeq(s, 1, Len(s) - 1)) * 10 + DigitVal(s[Len(s)])

AllDigits(s) == \A i \in 1..Len(s) : IsDigit(s[i])

-----------------------------------------------------------------------------
(* models.py: the date codec.                                              *)
(*                                                                         *)
(* A date is [kind |-> "date", day]; a date-time is [kind |-> "datetime",  *)
(* day, sod, us, tz]: the day since 1970-01-01, the second of that day and *)
(* the microsecond of that second of the instant in UTC, and the zone the  *)
(* value carries ("naive" when it carries none).  Epoch seconds reach      *)
(* 253402300799, beyond the integers TLC computes with, so a count of      *)
(* seconds is the pair [hi, lo] that stands for hi * 10^6 + lo.            *)

Date(day) == [kind |-> "date", day |-> day]

DateTime(day, sod, us, tz) ==
    [kind |-> "datetime", day |-> day, sod |-> sod, us |-> us, tz |-> tz]

\* day * 86400 + sod for day >= 0 and 0 <= sod <= 86400.
Big(day, sod) ==
    LET a == day * 432
        t == (a % 10000) * 200 + sod
    IN  [hi |-> (a \div 10000) * 2 + t \div 1000000, lo |-> t % 1000000]

\* str() of a count of seconds.
DecBig(b) == IF b.hi = 0 THEN DecStr(b.lo)
             ELSE DecStr(b.hi) \o ZeroPad(DecStr(b.lo), 6)

\* The count a sequence of digits writes.
ParseBig(s) ==
    IF Len(s) <= 6 THEN [hi |-> 0, lo |-> DecVal(s)]
    ELSE [hi |-> DecVal(SubSeq(s, 1, Len(s) - 6)),
          lo |-> DecVal(SubSeq(s, Len(s) - 5, Len(s)))]

NONE_DATETIME ==
    <<"/", "D", "a", "t", "e", "(", "2", "5", "3", "4", "0", "2", "2", "1",
      "4", "4", "0", "0", "0", "0", "0", ")", "/">>

\* _RE_DATE.fullmatch(s): group 1 when s matches, <<>> when it does not
\* (group 1 is \d+ and never empty).  The pattern is anchored at both ends,
\* so group 1 is what lies between "/Date(" and the last "000)/".
RE_DATE(s) ==
    LET n == Len(s)
        g == SubSeq(s, 7, n - 5)
    IN  IF /\ n >= 12
           /\ SubSeq(s, 1, 6) = <<"/", "D", "a", "t", "e", "(">>
           /\ SubSeq(s, n - 4, n) = <<"0", "0", "0", ")", "/">>
           /\ AllDigits(g)
        THEN g ELSE <<>>

_datetime_validator_keeps_millis(data) ==
    IF data.kind \in {"date", "datetime"} THEN data
    ELSE IF data.s = NONE_DATETIME THEN None
    ELSE IF RE_DATE(data.s) # <<>> THEN Str(RE_DATE(data.s) \o <<"0", "0", "0">>)
    ELSE Raise("ValueError")

_datetime_validator(data) ==
    IF data.kind \in {"date", "datetime"} THEN data
    ELSE IF data.s = NONE_DATETIME THEN None
    ELSE IF RE_DATE(data.s) # <<>> THEN Str(RE_DATE(data.s))
    ELSE Raise("ValueError")

\* f"{x.timestamp():.0f}": the epoch seconds of an aware date-time, rounded
\* to a whole number, a tie going to the even neighbour.  The day has an
\* even number of seconds, so the parity of the whole seconds is that of sod;
\* a value before the epoch is written with a minus sign, also when it
\* rounds to zero.
Format0f(x) ==
    LET up == x.us > 500000 \/ (x.us = 500000 /\ x.sod % 2 = 1)
        sod == IF up THEN x.sod + 1 ELSE x.sod
    IN  IF x.day >= 0 THEN DecBig(Big(x.day, sod))
        ELSE <<"-">> \o DecBig(Big(-x.day - 1, 86400 - sod))

_datetime_serializer(x) ==
    IF x = None THEN Str(NONE_DATETIME)
    ELSE LET y == IF x.kind = "date" THEN DateTime(x.day, 0, 0, "UTC") ELSE x
         IN  IF y.tz = "naive" THEN Raise("ValueError")
             ELSE Str(<<"/", "D", "a", "t", "e", "(">> \o Format0f(y)
                      \o <<"0", "0", "0", ")", "/">>)

RECURSIVE StripZeros(_)
\* A sequence of digits without its leading zeros.
StripZeros(s) == IF Len(s) > 1 /\ s[1] = "0" THEN StripZeros(Tail(s)) ELSE s

\* The date-time in UTC that lies b seconds and us microseconds after the
\* epoch; a time after the year 9999 is refused.  10^9 = 11574 * 86400 + 6400.
FromTimestamp(b, us) ==
    LET r == (b.hi \div 1000) * 6400 + (b.hi % 1000) * 1000000 + b.lo
        day == (b.hi \div 1000) * 11574 + r \div 86400
    IN  IF day > 2932896 THEN Raise("ValidationError")
        ELSE DateTime(day, r % 86400, us, "UTC")

\* The field type T | None behind the BeforeValidator, for T = datetime:
\* None and a date-time pass; a string of digits is a Unix time, in seconds
\* up to 2 * 10^10 and in milliseconds beyond, and becomes a date-time in UTC.
DateTimeField(x) ==
    IF x.kind # "str" THEN x
    ELSE IF Len(StripZeros(x.s)) > 15 THEN Raise("ValidationError")
    ELSE LET b == ParseBig(StripZeros(x.s))
         IN  IF b.hi > 20000 \/ (b.hi = 20000 /\ b.lo > 0)
             THEN FromTimestamp([hi |-> b.hi \div 1000,
                                 lo |-> (b.hi % 1000) * 1000 + b.lo \div 1000],
                                (b.lo % 1000) * 1000)
             ELSE FromTimestamp(b, 0)

\* Validation of a wire value into a DateTime field.
DecodeDateTime(data) ==
    LET x == _datetime_validator(data)
    IN  IF IsError(x) THEN x ELSE DateTimeField(x)

\* datetime.__eq__: two aware date-times are equal when they are the same
\* instant, whatever their zones; a naive one equals no aware one.
DtEq(a, b) ==
    IF a.kind = "datetime" /\ b.kind = "datetime"
    THEN /\ a.day = b.day /\ a.sod = b.sod /\ a.us = b.us
         /\ (a.tz = "naive") = (b.tz = "naive")
    ELSE a = b

-----------------------------------------------------------------------------
(* models.py: the deferred validator and the response envelope.            *)
(*                                                                         *)
(* A decoded JSON value is None, [kind |-> "int", n], [kind |-> "str", s], *)
(* [kind |-> "list", items] or [kind |-> "dict", keys, at].                *)

JInt(n) == [kind |-> "int", n |-> n]

JList(items) == [kind |-> "list", items |-> items]

Dict(r) == [kind |-> "dict", keys |-> DOMAIN r, at |-> r]

EmptyDict == [kind |-> "dict", keys |-> {}, at |-> <<>>]

_deferrable_validator_empty_when_no_results(data, multiple) ==
    IF data.kind # "dict" THEN data
    ELSE IF "__deferred" \in data.keys
         THEN (IF multiple THEN JList(<<>>) ELSE None)
    ELSE IF multiple
         THEN (IF "results" \in data.keys THEN data.at["results"]
               ELSE JList(<<>>))
    ELSE data

_deferrable_validator(data, multiple) ==
    IF data.kind # "dict" THEN data
    ELSE IF "__deferred" \in data.keys
         THEN (IF multiple THEN JList(<<>>) ELSE None)
    ELSE IF multiple
         THEN (IF "results" \in data.keys THEN data.at["results"]
               ELSE Raise("ValueError"))
    ELSE data

\* Deferrable[T] and DeferrableList[T] fix the keyword argument.
Deferrable(data) == _deferrable_validator(data, FALSE)

DeferrableList(data) == _deferrable_validator(data, TRUE)

before_validator_get_default(data) ==
    IF data.kind # "dict" THEN Raise("ValueError")
    ELSE IF "d" \notin data.keys THEN JList(<<>>)
    ELSE LET d == data.at["d"]
         IN  IF d.kind # "dict" THEN Raise("TypeError")
             ELSE IF "results" \notin d.keys THEN JList(<<>>)
             ELSE d.at["results"]

\* ResponseModel.before_validator: data["d"]["results"], where a missing key
\* is a ValueError and subscripting a value that is no dict with a string is
\* a TypeError.
before_validator(data) ==
    IF data.kind # "dict" THEN Raise("ValueError")
    ELSE IF "d" \notin data.keys THEN Raise("ValueError")
    ELSE LET d == data.at["d"]
         IN  IF d.kind # "dict" THEN Raise("TypeError")
             ELSE IF "results" \notin d.keys THEN Raise("ValueError")
             ELSE d.at["results"]

-----------------------------------------------------------------------------
(* models.py: the entities the client builds and validates.                *)

\* The fields a model declares, all of them required.
Fields(T) ==
    CASE T = "MeterReadingResult2" ->
           {"MeterReadingResultID", "Prkrasch", "ReadingDateTime",
            "ReadingResult", "RegisterID", "Text40", "Zwarttxt"}
      [] T = "Invoice" ->
           {"AmountDue", "AmountPaid", "AmountRemaining", "DueDate",
            "InvoiceDate", "InvoiceID", "InvoiceStatusID"}
      [] T = "PaymentDocument" ->
           {"Amount", "ExecutionDate", "PaymentDocumentID",
            "PaymentMethodDescription"}
      [] T = "Account" ->
           {"AccountID", "ContractAccounts", "FullName", "PaymentDocuments",
            "StandardAccountAddress"}

\* MeterReadingResult2.is_empty: bool(value) of a string.
is_empty(value) == value.s # <<>>

\* Validation of one item into the model T: a dict that has every field,
\* the other keys ignored.  A MeterReadingResult2 converts Prkrasch with
\* is_empty and ReadingDateTime with the DateTime codec.
Model(T, item) ==
    IF item.kind # "dict" \/ ~(Fields(T) \subseteq item.keys)
    THEN Raise("ValidationError")
    ELSE IF T # "MeterReadingResult2"
    THEN [kind |-> T, at |-> [k \in Fields(T) |-> item.at[k]]]
    ELSE IF IsError(DecodeDateTime(item.at["ReadingDateTime"]))
    THEN Raise("ValidationError")
    ELSE [kind |-> T,
          at |-> [k \in Fields(T) |->
                    CASE k = "Prkrasch" -> is_empty(item.at[k])
                      [] k = "ReadingDateTime" -> DecodeDateTime(item.at[k])
                      [] OTHER -> item.at[k]]]

\* ResponseModel[T].model_validate_json: the before validator, then the root
\* type list[T].
ResponseModel(T, data) ==
    LET r == before_validator(data)
    IN  IF IsError(r) THEN r
        ELSE IF r.kind # "list" THEN Raise("ValidationError")
        ELSE IF \E i \in 1..Len(r.items) : IsError(Model(T, r.items[i]))
        THEN Raise("ValidationError")
        ELSE JList([i \in 1..Len(r.items) |-> Model(T, r.items[i])])

\* client.py imports ResponseListModel from models.py, which does not define
\* it: the list envelope {d: {results: [...]}} validated into list[T].
ResponseListModel(T, data) == ResponseModel(T, data)

\* f"{id:03}"
RegisterID_from_zero(id) == ZeroPad(DecStr(id - 1), 3)

RegisterID(id) == ZeroPad(DecStr(id), 3)

\* MeterReadingResult(...): the dependents pass the DeferrableList validator
\* and the date-time the codec's validator.
MeterReadingResult(dependents, readingDateTime, deviceID, noteID, registerID, value) ==
    [DependentMeterReadingResults |-> DeferrableList(JList(dependents)).items,
     DeviceID |-> deviceID,
     MeterReadingNoteID |-> noteID,
     ReadingDateTime |-> _datetime_validator(readingDateTime),
     ReadingResult |-> value,
     RegisterID |-> registerID]

RECURSIVE model_dump_json(_)
\* The JSON of a reading: the date-time through the codec's serializer, the
\* Decimal as its digits, the dependents inline.
model_dump_json(m) ==
    [DependentMeterReadingResults |->
        [i \in 1..Len(m.DependentMeterReadingResults) |->
            model_dump_json(m.DependentMeterReadingResults[i])],
     DeviceID |-> m.DeviceID,
     MeterReadingNoteID |-> m.MeterReadingNoteID,
     ReadingDateTime |-> _datetime_serializer(m.ReadingDateTime).s,
     ReadingResult |-> DecStr(m.ReadingResult),
     RegisterID |-> m.RegisterID]

\* Lines 165 to 179 of set_value: one reading per value, the first one the
\* primary, the others its dependents; the primary serialized.
BuildJson(vals, t, dev) ==
    LET results == [id \in 1..Len(vals) |->
                      MeterReadingResult(<<>>, t, dev, "920", RegisterID(id), vals[id])]
        primary == Head(results)
        secondary == Tail(results)
    IN  model_dump_json([primary EXCEPT !.DependentMeterReadingResults = secondary])

-----------------------------------------------------------------------------
(* qrcode.py: find_qrcode.                                                 *)
(*                                                                         *)
(* A block of page.get_text("dict")["blocks"] is [kind |-> "text"], which  *)
(* has no "image" key, or [kind |-> "image", image, width, height], where  *)
(* image is the block's bytes.                                             *)

TextBlock == [kind |-> "text"]

ImageBlock(image, width, height) ==
    [kind |-> "image", image |-> image, width |-> width, height |-> height]

\* x.get("image"), taken as a truth value.
HasImage(x) == x.kind = "image" /\ x.image # <<>>

\* 0.9 <= width / height <= 1.1 for whole numbers of pixels: the quotient of
\* two integers is rounded to the nearest double, as the literals 0.9 and
\* 1.1 are, so the comparison of doubles is the comparison of the fractions.
RatioInBand(width, height) == 9 * height <= 10 * width /\ 10 * width <= 11 * height

Min(a, b) == IF a <= b THEN a ELSE b

\* What the loop does with a block that is not skipped: the image as it is
\* when the block is square, and else its crop to (0, 0, px, px).
Accept(x, i) ==
    [kind |-> "image", index |-> i, image |-> x.image,
     box |-> IF x.width = x.height THEN <<0, 0, x.width, x.height>>
             ELSE <<0, 0, Min(x.width, x.height), Min(x.width, x.height)>>]

Skips_height_only(x) ==
    \/ ~HasImage(x)
    \/ x.height < 400

\* The two `continue` conditions of the loop.
Skips(x) ==
    \/ ~HasImage(x)
    \/ x.height < 400 \/ ~RatioInBand(x.width, x.height)

RECURSIVE FindFrom(_, _)
FindFrom(bs, i) ==
    IF i > Len(bs) THEN Raise("FileNotFoundError")
    ELSE IF Skips(bs[i]) THEN FindFrom(bs, i + 1)
    ELSE Accept(bs[i], i)

find_qrcode(bs) == FindFrom(bs, 1)

-----------------------------------------------------------------------------
(* client.py: calls on one SamaraEnergoClient.  Each call is a coroutine   *)
(* on one event loop: it runs from one await to the next without           *)
(* interruption, and the calls interleave at their awaits.                 *)

NumCalls == 2

MaxValues == 4

Calls == 1..NumCalls

\* Readings to submit, in no order of size.
Readings == <<12, 10, 11, 13, 9, 14>>

ValueSeqs == {SubSeq(Readings, 1, n) : n \in 0..MaxValues}

Devices == {"D1", "D2"}

\* What datetime.now(dt.UTC) returns.
Nows == {DateTime(19800, 41600, 250000, "UTC"), DateTime(19800, 86399, 750000, "UTC")}

\* The tokens the provider hands out.
Tokens == {"t1", "t2"}

\* A confirmed reading as the provider sends it.
Confirmed ==
    Dict([MeterReadingResultID |-> Str(<<"7">>),
          Prkrasch |-> Str(<<"X">>),
          ReadingDateTime |-> _datetime_serializer(DateTime(19800, 41600, 0, "UTC")),
          ReadingResult |-> Str(<<"1", "2">>),
          RegisterID |-> Str(<<"0", "0", "1">>),
          Text40 |-> Str(<<"w", "e", "b">>),
          Zwarttxt |-> Str(<<>>)])

\* Bodies of a successful POST: the record under d, the record under
\* d.results, and a list of records under d.results.
PostBodies ==
    {Dict([d |-> Confirmed]),
     Dict([d |-> Dict([results |-> Confirmed])]),
     Dict([d |-> Dict([results |-> JList(<<Confirmed>>)])])}

\* Bodies of a successful GET: an empty list in its envelope, and no envelope.
GetBodies == {Dict([d |-> Dict([results |-> JList(<<>>)])]), EmptyDict}

InFlight(c) == pc[c] \in {"probe", "post", "get"}

Head_request == [method |-> "HEAD", token |-> "Fetch"]

Post_request(token, data) == [method |-> "POST", token |-> token, data |-> data]

Get_request(path) == [method |-> "GET", path |-> path]

\* A call that reaches its first await is in flight with those already there.
Begin(c) == conc' = conc \cup {{c, c2} : c2 \in {x \in Calls : InFlight(x)}}

Fail(c, cls) ==
    /\ pc' = [pc EXCEPT ![c] = "failed"]
    /\ err' = [err EXCEPT ![c] = Raise(cls)]

ValidCount_up_to_four(vals) == 1 <= Len(vals) /\ Len(vals) <= 4

\* assert 1 <= len(values) <= 3
ValidCount(vals) == 1 <= Len(vals) /\ Len(vals) <= 3

\* set_value up to its first await: the assertion, the payload, and the
\* HEAD request of _fetch_csrf_token.
set_value(c, vals, dev, t) ==
    /\ pc[c] = "idle"
    /\ op' = [op EXCEPT ![c] = "set_value"]
    /\ values' = [values EXCEPT ![c] = vals]
    /\ device_id' = [device_id EXCEPT ![c] = dev]
    /\ IF ~ValidCount(vals)
       THEN /\ Fail(c, "AssertionError")
            /\ UNCHANGED <<now, jsonStr, reqs, conc>>
       ELSE /\ now' = [now EXCEPT ![c] = t]
            /\ jsonStr' = [jsonStr EXCEPT ![c] = BuildJson(vals, t, dev)]
            /\ reqs' = [reqs EXCEPT ![c] = Append(@, Head_request)]
            /\ pc' = [pc EXCEPT ![c] = "probe"]
            /\ Begin(c)
            /\ UNCHANGED err
    /\ UNCHANGED <<headers, result, body, issued, file, researchDir, dumped>>
    /\ UNCHANGED others

PostToken_first_fetched(c, hs) ==
    hs[CHOOSE c2 \in Calls : hs[c2] # "" /\ \A c3 \in Calls : hs[c3] # "" => c2 <= c3]

\* The x-csrf-token of the headers set_value gives to the POST: the one its
\* own await of _fetch_csrf_token returned.
PostToken(c, hs) == hs[c]

\* The probe succeeds and its response carries a token: _fetch_csrf_token
\* returns, and set_value issues the POST.
ProbeOk(c, tok) ==
    /\ pc[c] = "probe"
    /\ issued' = [issued EXCEPT ![c] = tok]
    /\ headers' = [headers EXCEPT ![c] = tok]
    /\ reqs' = [reqs EXCEPT ![c] = Append(@, Post_request(PostToken(c, headers'), jsonStr[c]))]
    /\ pc' = [pc EXCEPT ![c] = "post"]
    /\ UNCHANGED <<op, values, device_id, now, jsonStr, result, err, body, file,
                   researchDir, dumped, conc>>
    /\ UNCHANGED others

\* The probe succeeds and its response has no x-csrf-token header.
ProbeNoToken(c) ==
    /\ pc[c] = "probe"
    /\ Fail(c, "KeyError")
    /\ UNCHANGED <<op, values, device_id, now, jsonStr, headers, reqs, result, body,
                   issued, file, researchDir, dumped, conc>>
    /\ UNCHANGED others

ProbeFails_retries(c) ==
    /\ pc[c] = "probe"
    /\ Len(reqs[c]) < 3
    /\ reqs' = [reqs EXCEPT ![c] = Append(@, Head_request)]
    /\ UNCHANGED <<pc, err, op, values, device_id, now, jsonStr, headers, result,
                   body, issued, file, researchDir, dumped, conc>>
    /\ UNCHANGED others

\* raise_for_status=True: a status of 400 or more on the probe.
ProbeFails(c) ==
    /\ pc[c] = "probe"
    /\ Fail(c, "ClientResponseError")
    /\ UNCHANGED <<op, values, device_id, now, jsonStr, headers, reqs, result, body,
                   issued, file, researchDir, dumped, conc>>
    /\ UNCHANGED others

\* The rest of a call once it has read the body b: _dump(b) when the call
\* dumps, which fails when research/ does not exist, and then the validation
\* into the model, whose root the call returns.
Finish(c, b, dumps, validated) ==
    /\ body' = [body EXCEPT ![c] = b]
    /\ IF dumps /\ ~researchDir
       THEN /\ Fail(c, "FileNotFoundError")
            /\ UNCHANGED <<result, file, dumped>>
       ELSE /\ IF dumps
               THEN file' = b /\ dumped' = dumped \cup {c}
               ELSE UNCHANGED <<file, dumped>>
            /\ IF IsError(validated)
               THEN Fail(c, validated.cls) /\ UNCHANGED result
               ELSE /\ pc' = [pc EXCEPT ![c] = "done"]
                    /\ result' = [result EXCEPT ![c] = validated]
                    /\ UNCHANGED err
    /\ UNCHANGED <<op, values, device_id, now, jsonStr, headers, reqs, issued,
                   researchDir, conc>>
    /\ UNCHANGED others

\* The POST succeeds with body b.
PostOk(c, b) ==
    /\ pc[c] = "post"
    /\ Finish(c, b, TRUE, ResponseModel("MeterReadingResult2", b))

\* raise_for_status=True: a status of 400 or more on the POST.
PostFails(c) ==
    /\ pc[c] = "post"
    /\ Fail(c, "ClientResponseError")
    /\ UNCHANGED <<op, values, device_id, now, jsonStr, headers, reqs, result, body,
                   issued, file, researchDir, dumped, conc>>
    /\ UNCHANGED others

\* get_info, get_invoices and get_payments up to their await of _get.
get(c, name) ==
    /\ pc[c] = "idle"
    /\ op' = [op EXCEPT ![c] = name]
    /\ reqs' = [reqs EXCEPT ![c] = Append(@, Get_request(
                    CASE name = "get_info" -> "Accounts"
                      [] name = "get_invoices" -> "Accounts('1')/Invoices"
                      [] name = "get_payments" -> "Accounts('1')/PaymentDocuments"))]
    /\ pc' = [pc EXCEPT ![c] = "get"]
    /\ Begin(c)
    /\ UNCHANGED <<values, device_id, now, jsonStr, headers, result, err, body,
                   issued, file, researchDir, dumped>>
    /\ UNCHANGED others

\* The GET succeeds with body b: get_info dumps it, and each call validates
\* it into its list of models.
GetOk(c, b) ==
    /\ pc[c] = "get"
    /\ Finish(c, b, op[c] = "get_info",
              ResponseListModel(CASE op[c] = "get_info" -> "Account"
                                  [] op[c] = "get_invoices" -> "Invoice"
                                  [] op[c] = "get_payments" -> "PaymentDocument", b))

GetFails(c) ==
    /\ pc[c] = "get"
    /\ Fail(c, "ClientResponseError")
    /\ UNCHANGED <<op, values, device_id, now, jsonStr, headers, reqs, result, body,
                   issued, file, researchDir, dumped, conc>>
    /\ UNCHANGED others

Init ==
    /\ pc = [c \in Calls |-> "idle"]
    /\ op = [c \in Calls |-> ""]
    /\ values = [c \in Calls |-> <<>>]
    /\ device_id = [c \in Calls |-> ""]
    /\ now = [c \in Calls |-> None]
    /\ jsonStr = [c \in Calls |-> None]
    /\ headers = [c \in Calls |-> ""]
    /\ reqs = [c \in Calls |-> <<>>]
    /\ result = [c \in Calls |-> None]
    /\ err = [c \in Calls |-> None]
    /\ body = [c \in Calls |-> None]
    /\ issued = [c \in Calls |-> ""]
    /\ file = None
    /\ researchDir \in BOOLEAN
    /\ dumped = {}
    /\ conc = {}
    /\ dtIn = None /\ dtWire = None /\ dtOut = None /\ dtPc = "idle"
    /\ jsIn = None /\ jsOut = None /\ jsPc = "idle"
    /\ blocks = <<>> /\ qrOut = None /\ qrPc = "idle"

\* Calls in any interleaving, each with one of two argument lists.
Next ==
    \/ \E c \in Calls, vals \in {<<>>, SubSeq(Readings, 1, 2)} :
            set_value(c, vals, "D1", DateTime(19800, 41600, 250000, "UTC"))
    \/ \E c \in Calls, tok \in Tokens : ProbeOk(c, tok)
    \/ \E c \in Calls : ProbeNoToken(c)
    \/ \E c \in Calls : ProbeFails(c)
    \/ \E c \in Calls, b \in PostBodies : PostOk(c, b)
    \/ \E c \in Calls : PostFails(c)
    \/ \E c \in Calls, name \in {"get_info", "get_invoices", "get_payments"} :
            get(c, name)
    \/ \E c \in Calls, b \in GetBodies : GetOk(c, b)
    \/ \E c \in Calls : GetFails(c)

Spec == Init /\ [][Next]_vars

\* One call of set_value, with every argument list.
SubmitNext ==
    \/ \E vals \in ValueSeqs, dev \in Devices, t \in Nows : set_value(1, vals, dev, t)
    \/ \E tok \in Tokens : ProbeOk(1, tok)
    \/ ProbeNoToken(1)
    \/ ProbeFails(1)
    \/ \E b \in PostBodies : PostOk(1, b)
    \/ PostFails(1)

SpecSubmit == Init /\ [][SubmitNext]_vars

-----------------------------------------------------------------------------
(* The codec at work: a value is encoded and the wire string decoded.      *)

ClientIdle ==
    /\ pc = <<>> /\ op = <<>> /\ values = <<>> /\ device_id = <<>> /\ now = <<>>
    /\ jsonStr = <<>> /\ headers = <<>> /\ reqs = <<>> /\ result = <<>>
    /\ err = <<>> /\ body = <<>> /\ issued = <<>>
    /\ file = None /\ researchDir = FALSE /\ dumped = {} /\ conc = {}

CodecIdle == dtIn = None /\ dtWire = None /\ dtOut = None /\ dtPc = "idle"

JsonIdle == jsIn = None /\ jsOut = None /\ jsPc = "idle"

QrIdle == blocks = <<>> /\ qrOut = None /\ qrPc = "idle"

\* Days since the epoch: the day before it, the epoch, a day of 2024, the
\* day the count of seconds passes 2 * 10^10, the day after, 9999-12-31.
Days == {-1, 0, 19800, 231481, 231482, 2932896}

Seconds == {0, 1, 41600, 41601, 86399}

Micros == {0, 250000, 500000, 750000}

Zones == {"naive", "UTC", "+04:00"}

\* The last day of the year 9999 has no local time four hours ahead of UTC
\* in its last four hours.
DateTimes ==
    {x \in {DateTime(d, s, u, z) : d \in Days, s \in Seconds, u \in Micros, z \in Zones} :
        ~(x.day = 2932896 /\ x.tz = "+04:00" /\ x.sod >= 72000)}

\* Strings that no encoding writes.
Wires == {
    <<"/", "D", "a", "t", "e", "(", "1", "5", "0", "0", ")", "/">>,
    <<"/", "D", "a", "t", "e", "(", "0", "0", "0", ")", "/">>,
    <<"/", "D", "a", "t", "e", "(", "7", "0", "0", "0", ")", "/">>,
    <<"D", "a", "t", "e", "(", "7", "0", "0", "0", ")">>,
    <<>>}

CodecInit ==
    /\ dtIn \in DateTimes \cup {None} \cup {Date(d) : d \in Days}
    /\ dtWire = None /\ dtOut = None /\ dtPc = "value"
    /\ ClientIdle /\ JsonIdle /\ QrIdle

Encode ==
    /\ dtPc = "value"
    /\ dtWire' = _datetime_serializer(dtIn)
    /\ dtPc' = IF IsError(dtWire') THEN "failed" ELSE "wire"
    /\ UNCHANGED <<dtIn, dtOut, clientVars, jsonVars, qrVars>>

Decode ==
    /\ dtPc = "wire"
    /\ dtOut' = DecodeDateTime(dtWire)
    /\ dtPc' = "decoded"
    /\ UNCHANGED <<dtIn, dtWire, clientVars, jsonVars, qrVars>>

\* A string from the provider is decoded.
Receive ==
    /\ dtPc = "value"
    /\ \E w \in Wires : dtWire' = Str(w)
    /\ dtIn' = None
    /\ dtPc' = "received"
    /\ UNCHANGED <<dtOut, clientVars, jsonVars, qrVars>>

DecodeReceived ==
    /\ dtPc = "received"
    /\ dtOut' = DecodeDateTime(dtWire)
    /\ dtPc' = "parsed"
    /\ UNCHANGED <<dtIn, dtWire, clientVars, jsonVars, qrVars>>

CodecNext == Encode \/ Decode \/ Receive \/ DecodeReceived

SpecCodec == CodecInit /\ [][CodecNext]_vars

-----------------------------------------------------------------------------
(* The validators at work on decoded JSON.                                 *)

Leaves ==
    {None, JInt(1), Str(<<"a">>), JList(<<>>), JList(<<JInt(1), JInt(2)>>),
     EmptyDict, Dict([x |-> JInt(1)])}

Wrapped ==
    Leaves
    \cup {Dict([results |-> v]) : v \in Leaves}
    \cup {Dict([__deferred |-> Dict([uri |-> Str(<<"u">>)])]),
          Dict([__deferred |-> Dict([uri |-> Str(<<"u">>)]),
                results |-> JList(<<JInt(1)>>)]),
          Dict([x |-> JInt(1), results |-> JList(<<JInt(2), JInt(1)>>)])}

Docs == Wrapped \cup {Dict([d |-> v]) : v \in Wrapped}

JsonInit ==
    /\ jsIn \in Docs /\ jsOut = None /\ jsPc = "value"
    /\ ClientIdle /\ CodecIdle /\ QrIdle

ResolveSingle ==
    /\ jsPc = "value"
    /\ jsOut' = Deferrable(jsIn)
    /\ jsPc' = "single"
    /\ UNCHANGED <<jsIn, clientVars, codecVars, qrVars>>

ResolveCollection ==
    /\ jsPc = "value"
    /\ jsOut' = DeferrableList(jsIn)
    /\ jsPc' = "collection"
    /\ UNCHANGED <<jsIn, clientVars, codecVars, qrVars>>

Unwrap ==
    /\ jsPc = "value"
    /\ jsOut' = before_validator(jsIn)
    /\ jsPc' = "unwrapped"
    /\ UNCHANGED <<jsIn, clientVars, codecVars, qrVars>>

JsonNext == ResolveSingle \/ ResolveCollection \/ Unwrap

SpecJson == JsonInit /\ [][JsonNext]_vars

-----------------------------------------------------------------------------
(* The locator at work on the blocks of a page.                            *)

MaxBlocks == 2

\* Width and height of the image blocks: around the height of 400 and
\* around the ratios 0.9 and 1.1.
Sizes ==
    {<<100, 400>>, <<410, 500>>, <<400, 400>>, <<399, 399>>, <<360, 400>>,
     <<359, 400>>, <<440, 400>>, <<441, 400>>, <<450, 500>>, <<360, 399>>}

BlockKinds ==
    {TextBlock, ImageBlock(<<>>, 400, 400)}
    \cup {ImageBlock(<<"png">>, wh[1], wh[2]) : wh \in Sizes}

Pages == UNION {[1..n -> BlockKinds] : n \in 0..MaxBlocks}

QrInit ==
    /\ blocks \in Pages /\ qrOut = None /\ qrPc = "page"
    /\ ClientIdle /\ CodecIdle /\ JsonIdle

Find ==
    /\ qrPc = "page"
    /\ qrOut' = find_qrcode(blocks)
    /\ qrPc' = "searched"
    /\ UNCHANGED <<blocks, clientVars, codecVars, jsonVars>>

QrNext == Find

SpecQr == QrInit /\ [][QrNext]_vars

-----------------------------------------------------------------------------
(* The claims.                                                             *)

Requests(c, method) == {i \in 1..Len(reqs[c]) : reqs[c][i].method = method}

\* C1: a POST of set_value is the call's second request, issued after the
\* call's own probe was answered with a token, and it carries that token: no
\* POST carries a token another call fetched, and no call whose probe failed
\* issues a POST, however the calls interleave.
C1_PostCarriesOwnToken ==
    \A c \in Calls : \A i \in Requests(c, "POST") :
        /\ i = 2
        /\ reqs[c][1] = Head_request
        /\ issued[c] \in Tokens
        /\ reqs[c][i].token = issued[c]

\* Two calls in flight together have posted, each with a token of its own.
C1_Witness ==
    \E c1, c2 \in Calls :
        /\ c1 # c2 /\ {c1, c2} \in conc
        /\ Requests(c1, "POST") # {} /\ Requests(c2, "POST") # {}
        /\ issued[c1] # issued[c2]

\* C2: the payload of 1 to 3 readings is one primary reading with register
\* "001" and the first value; its dependents are the other readings in the
\* order given, with registers "002" and "003" and no dependents of their
\* own; every reading has the call's device, its capture time and note "920".
C2_PayloadShape ==
    jsonStr[1] # None =>
        LET p == jsonStr[1]
            deps == p.DependentMeterReadingResults
            n == Len(values[1])
            all == <<p>> \o deps
        IN  /\ n \in 1..3
            /\ Len(deps) = n - 1
            /\ p.RegisterID = <<"0", "0", "1">>
            /\ \A k \in 1..Len(deps) :
                  /\ deps[k].RegisterID =
                        (IF k = 1 THEN <<"0", "0", "2">> ELSE <<"0", "0", "3">>)
                  /\ deps[k].DependentMeterReadingResults = <<>>
            /\ \A k \in 1..Len(all) :
                  /\ all[k].ReadingResult = DecStr(values[1][k])
                  /\ all[k].DeviceID = device_id[1]
                  /\ all[k].MeterReadingNoteID = "920"
                  /\ all[k].ReadingDateTime = _datetime_serializer(now[1]).s

\* Three readings were built into a payload and posted.
C2_Witness ==
    /\ Len(values[1]) = 3
    /\ Len(jsonStr[1].DependentMeterReadingResults) = 2
    /\ Requests(1, "POST") # {}
    /\ reqs[1][2].data = jsonStr[1]

\* C3: set_value with no reading or with more than three fails with the
\* assertion's error and issues no request, neither the probe nor the POST.
C3_BadCountFailsFast ==
    \A c \in Calls :
        op[c] = "set_value" /\ Len(values[c]) \notin 1..3 =>
            /\ pc[c] = "failed"
            /\ err[c] = Raise("AssertionError")
            /\ reqs[c] = <<>>
            /\ jsonStr[c] = None

\* A call with four readings has failed.
C3_Witness == pc[1] = "failed" /\ Len(values[1]) = 4 /\ reqs[1] = <<>>

Aware(x) == x.kind = "datetime" /\ x.tz # "naive"

\* C4 as stated: decoding the encoding of any date-time with an offset, and
\* of the absent value, gives the value back.
C4_RoundTripEveryDateTime ==
    dtPc = "decoded" /\ (dtIn = None \/ Aware(dtIn)) => DtEq(dtOut, dtIn)

\* C4 as amended: the absent value encodes to the sentinel, which decodes to
\* the absent value; a date-time with an offset comes back when it is a
\* whole number of seconds, not before the epoch and not more than 2 * 10^10
\* seconds after it.
C4_RoundTripWholeSeconds ==
    dtPc = "decoded" =>
        /\ dtIn = None => dtWire = Str(NONE_DATETIME) /\ dtOut = None
        /\ /\ Aware(dtIn)
           /\ dtIn.us = 0
           /\ dtIn.day >= 0
           /\ dtIn.day < 231481 \/ (dtIn.day = 231481 /\ dtIn.sod <= 41600)
           => DtEq(dtOut, dtIn)

\* A date-time four hours ahead of UTC has made the round trip.
C4_Witness ==
    /\ dtPc = "decoded"
    /\ dtIn = DateTime(19800, 41601, 0, "+04:00")
    /\ dtOut = DateTime(19800, 41601, 0, "UTC")

Deferred(x) == x.kind = "dict" /\ "__deferred" \in x.keys

HasResults(x) == x.kind = "dict" /\ "results" \in x.keys

\* C5 as stated: a deferred object resolves to None or to the empty list, a
\* results wrapper is unwrapped once by both resolvers, and an object with
\* neither key is an error where a wrapper is required.
C5_ResolverUnwrapsBoth ==
    /\ jsPc = "single" =>
          /\ Deferred(jsIn) => jsOut = None
          /\ HasResults(jsIn) /\ ~Deferred(jsIn) => jsOut = jsIn.at["results"]
    /\ jsPc = "collection" =>
          /\ Deferred(jsIn) => jsOut = JList(<<>>)
          /\ HasResults(jsIn) /\ ~Deferred(jsIn) => jsOut = jsIn.at["results"]
          /\ jsIn.kind = "dict" /\ ~HasResults(jsIn) /\ ~Deferred(jsIn)
                => IsError(jsOut)

\* C5 as amended: the single resolver never unwraps, it returns an object
\* that is not deferred as it is, with or without a results key; only the
\* collection resolver unwraps and requires the results key.
C5_ResolverUnwrapsCollection ==
    /\ jsPc = "single" =>
          /\ Deferred(jsIn) => jsOut = None
          /\ ~Deferred(jsIn) => jsOut = jsIn
    /\ jsPc = "collection" =>
          /\ Deferred(jsIn) => jsOut = JList(<<>>)
          /\ HasResults(jsIn) /\ ~Deferred(jsIn) => jsOut = jsIn.at["results"]
          /\ jsIn.kind = "dict" /\ ~HasResults(jsIn) /\ ~Deferred(jsIn)
                => jsOut = Raise("ValueError")
          /\ jsIn.kind # "dict" => jsOut = jsIn

\* The single resolver was given a results wrapper and returned it whole.
C5_Witness ==
    /\ jsPc = "single"
    /\ jsIn = Dict([results |-> JList(<<JInt(1), JInt(2)>>)])
    /\ jsOut = jsIn

\* C6: a successful POST whose body is the record under d, or the record
\* under d.results, makes set_value return the confirmed reading.
C6_SingletonReturned ==
    /\ researchDir
    /\ body[1] \in {Dict([d |-> Confirmed]), Dict([d |-> Dict([results |-> Confirmed])])}
    => /\ pc[1] = "done"
       /\ result[1] = Model("MeterReadingResult2", Confirmed)

\* C7: the list envelope gives the value of d.results when both keys are
\* there, and else fails with the validation error for the missing keys,
\* never with a list.
C7_UnwrapListOrValueError ==
    jsPc = "unwrapped" =>
        IF jsIn.kind = "dict" /\ "d" \in jsIn.keys /\ HasResults(jsIn.at["d"])
        THEN jsOut = jsIn.at["d"].at["results"]
        ELSE jsOut = Raise("ValueError")

\* C8: a set_value call issues at most one probe and at most one POST; when
\* the probe or the POST is refused the call ends with the error, returns
\* nothing, and has issued nothing after the refused request.
C8_NoRetry ==
    \A c \in Calls : op[c] = "set_value" =>
        /\ Cardinality(Requests(c, "HEAD")) <= 1
        /\ Cardinality(Requests(c, "POST")) <= 1
        /\ Len(reqs[c]) <= 2
        /\ pc[c] = "failed" => result[c] = None
        /\ pc[c] = "failed" /\ err[c] = Raise("ClientResponseError") =>
              reqs[c] = IF issued[c] = "" THEN <<Head_request>>
                        ELSE <<Head_request, Post_request(issued[c], jsonStr[c])>>

\* One call was refused at its probe and another at its POST.
C8_Witness ==
    \E c1, c2 \in Calls :
        /\ pc[c1] = "failed" /\ err[c1] = Raise("ClientResponseError")
        /\ Len(reqs[c1]) = 1 /\ op[c1] = "set_value"
        /\ pc[c2] = "failed" /\ err[c2] = Raise("ClientResponseError")
        /\ Len(reqs[c2]) = 2 /\ op[c2] = "set_value"

\* C9: two calls in flight together never both write research/test.json,
\* the one location outside the session that a call writes.
C9_NoSharedLocation ==
    \A c1, c2 \in Calls :
        c1 # c2 /\ {c1, c2} \in conc => ~(c1 \in dumped /\ c2 \in dumped)

Qualifies(x) ==
    /\ x.kind = "image" /\ x.image # <<>>
    /\ x.height >= 400
    /\ 9 * x.height <= 10 * x.width /\ 10 * x.width <= 11 * x.height

\* C10: find_qrcode returns the first image block of the page that is at
\* least 400 high and whose width is 0.9 to 1.1 times its height, skipping
\* the blocks before it (a 100x400 and a 410x500 block never qualify), and
\* fails with the not-found error when the page has no such block.
C10_FirstQualifyingBlock ==
    qrPc = "searched" =>
        LET q == {i \in 1..Len(blocks) : Qualifies(blocks[i])}
        IN  /\ \A i \in q :
                  <<blocks[i].width, blocks[i].height>> \notin {<<100, 400>>, <<410, 500>>}
            /\ IF q = {} THEN qrOut = Raise("FileNotFoundError")
               ELSE /\ qrOut.kind = "image"
                    /\ qrOut.index \in q
                    /\ \A i \in q : qrOut.index <= i
                    /\ qrOut.image = blocks[qrOut.index].image

\* A 410x500 block was skipped and the 450x500 block after it returned.
C10_Witness ==
    /\ qrPc = "searched"
    /\ blocks = <<ImageBlock(<<"png">>, 410, 500), ImageBlock(<<"png">>, 450, 500)>>
    /\ qrOut.kind = "image" /\ qrOut.index = 2

====
